---- MODULE Spec2Model ----
(***************************************************************************)
(* Incremental NeuMF training (NightModelTrainer, run_night_training) and  *)
(* warm-start inference (WarmRecommendationService) of the SWELL backend.  *)
(*                                                                         *)
(* Durable state: the interaction table, the two published-embedding       *)
(* tables and the checkpoint file.  Volatile state: the locals of each     *)
(* training pass, the inference singleton and the requests in flight.      *)
(***************************************************************************)
EXTENDS Integers, Sequences, FiniteSets, TLC

VARIABLES
  interactions,     \* user_coordi_interactions, committed rows
  user_embeddings,  \* user_embeddings table, committed rows
  item_embeddings,  \* item_embeddings table, committed rows
  checkpoint,       \* data/model_artifacts/neumf_night_model.pth
  tr,               \* per training pass: position and locals of run_night_training/train
  history,          \* every (kind, stable id, dense index) published or saved so far
  svc,              \* the WarmRecommendationService singleton
  rq                \* per request: position and locals of recommend

vars == <<interactions, user_embeddings, item_embeddings, checkpoint, tr, history, svc, rq>>
serving == <<svc, rq>>
training == <<tr, history>>

---------------------------------------------------------------------------
\* Bounds of the model.
MaxUserId == 2
MaxItemId == 2
MaxRows == 2
MaxRemovals == 1
MaxPairs == 3
MaxBatch == 3
MaxPage == 2
MaxLimit == 2

\* Rows per UPDATE statement of _mark_as_trained; the program uses 1000, scaled
\* down so that a batch within MaxRows spans more than one chunk.
chunk_size == 1

\* train(epochs=5, batch_size=64) as called by run_night_training.
epochs == 5
batch_size == 64
embedding_dim == 512

Users == 1..MaxUserId
Items == 1..MaxItemId
Pairs == Users \X Items
ActionTypes == {"like", "preference", "skip"}
PositiveActions == {"like", "preference"}
UserVersions == {"night_v1", "day_v1"}
ItemVersions == {"night_v1"}
Trainers == {"t1", "t2"}
Requests == {"r1", "r2"}

\* An embedding row, abstracted to how often training has moved it: 0 is a row
\* as NeMF initialises it, n a row moved by n training passes (MaxStamp and more
\* are not told apart).
MaxStamp == 1
EmbVals == 0..MaxStamp
Moved(v) == IF v < MaxStamp THEN v + 1 ELSE MaxStamp
\* Variant: the tables are built one row too long.
FreshRows_ExtraRow(n) == [i \in 1..(n + 1) |-> 0]
\* nn.Embedding(n, dim) as NeMF constructs it: n rows, randomly initialised.
FreshRows(n) == [i \in 1..n |-> 0]
\* No row under that key.
NoVec == -1
NoRow == [present |-> FALSE, action_type |-> "none", is_trained |-> FALSE, gen |-> 0]

---------------------------------------------------------------------------
\* Python helpers.

\* str(n) of a non-negative int, as its sequence of decimal digits.
RECURSIVE Str(_)
Str(n) ==
  IF n < 10 THEN <<n>> ELSE Append(Str(n \div 10), n % 10)

\* int(s) of a digit string.
RECURSIVE ParseInt(_)
ParseInt(s) ==
  IF Len(s) = 0 THEN 0 ELSE 10 * ParseInt(SubSeq(s, 1, Len(s) - 1)) + s[Len(s)]

EmptyMap == [x \in {} |-> 0]

\* d[k] = v on a dict.
Put(d, k, v) ==
  [x \in (DOMAIN d) \cup {k} |-> IF x = k THEN v ELSE d[x]]

\* All orders in which the elements of a finite set can be listed.
Orderings(S) ==
  {s \in [1..Cardinality(S) -> S] : \A i, j \in 1..Cardinality(S) : s[i] = s[j] => i = j}

\* The outcomes of np.random.shuffle on a list.
Shuffles(s) ==
  {[i \in 1..Len(s) |-> s[f[i]]] : f \in Orderings(1..Len(s))}

Min(a, b) == IF a < b THEN a ELSE b

\* seq[idx] of a Python list: negative indices count from the end.
InRange(seq, idx) ==
  (idx >= 0 /\ idx < Len(seq)) \/ (idx < 0 /\ -idx <= Len(seq))

RowAt(seq, idx) ==
  IF idx >= 0 THEN seq[idx + 1] ELSE seq[Len(seq) + idx + 1]

---------------------------------------------------------------------------
\* The checkpoint file.

AbsentCheckpoint ==
  [status |-> "absent", user_id_to_index |-> EmptyMap, item_id_to_index |-> EmptyMap,
   num_users |-> 0, num_items |-> 0, user_embedding |-> <<>>, item_embedding |-> <<>>,
   embedding_dim |-> embedding_dim]

\* A file that exists and that torch.load cannot read.
CorruptCheckpoint ==
  [AbsentCheckpoint EXCEPT !.status = "corrupt"]

\* A file that torch.load reads and that is not the dictionary save_checkpoint
\* writes: a non-empty dictionary without the keys train looks up.
MalformedCheckpoint ==
  [AbsentCheckpoint EXCEPT !.status = "malformed"]

\* The dictionary save_checkpoint hands to torch.save.
CheckpointDict(model, user_id_to_index, item_id_to_index, dim) ==
  [status |-> "ok",
   user_id_to_index |-> user_id_to_index,
   item_id_to_index |-> item_id_to_index,
   num_users |-> Cardinality(DOMAIN user_id_to_index),
   num_items |-> Cardinality(DOMAIN item_id_to_index),
   user_embedding |-> model.user_embedding,
   item_embedding |-> model.item_embedding,
   embedding_dim |-> dim]

NoModel == [user_embedding |-> <<>>, item_embedding |-> <<>>]

---------------------------------------------------------------------------
\* A training pass: run_night_training -> NightModelTrainer.train.

TrainerLocals(pc) ==
  [pc |-> pc, session |-> "none", exc |-> FALSE, caught |-> FALSE, exit |-> "none",
   existing_checkpoint |-> AbsentCheckpoint,
   new_interactions |-> <<>>, k |-> 1,
   user_id_to_index |-> EmptyMap, item_id_to_index |-> EmptyMap,
   num_users |-> 0, num_items |-> 0,
   current_max_user_idx |-> -1, current_max_item_idx |-> -1,
   train_data |-> <<>>, interaction_ids_to_mark |-> <<>>,
   model |-> NoModel, epoch |-> 0, steps |-> 0, touched_users |-> {}, touched_items |-> {},
   mark_i |-> 0, pending_marks |-> {},
   \* how the try block of each of the three saving steps ended
   marked |-> "none", published |-> "none", saved |-> "none"]

\* select(...).where(action_type.in_(['like', 'preference']), is_trained == False)
UnconsumedPositive(table) ==
  {pr \in Pairs : table[pr].present
                  /\ table[pr].action_type \in PositiveActions
                  /\ table[pr].is_trained = FALSE}

\* run_night_training: db = SessionLocal(); trainer.train(epochs=5, batch_size=64)
RunNightTraining(p) ==
  /\ tr[p].pc = "idle"
  /\ tr' = [tr EXCEPT ![p] = [TrainerLocals("load") EXCEPT !.session = "open"]]
  /\ UNCHANGED <<serving, interactions, user_embeddings, item_embeddings, checkpoint, history>>

\* Variant: what torch.load could make of the file is kept.
LoadedCheckpoint_KeepUnreadable(file) ==
  file

\* train, step 1: the checkpoint is loaded when the file exists and torch.load
\* succeeds; a failed load is logged and leaves existing_checkpoint = None.
LoadedCheckpoint(file) ==
  IF file.status \in {"ok", "malformed"} THEN file ELSE AbsentCheckpoint

LoadCheckpoint(p) ==
  /\ tr[p].pc = "load"
  /\ tr' = [tr EXCEPT ![p].existing_checkpoint = LoadedCheckpoint(checkpoint),
                      ![p].pc = "query"]
  /\ UNCHANGED <<serving, interactions, user_embeddings, item_embeddings, checkpoint, history>>

\* train, steps 2-3 up to the mapping loop: the query (rows come in no stated
\* order), the early return on an empty result, the mappings taken from the
\* checkpoint (a KeyError when the loaded dictionary has no such key).
\* Variant: no early return on an empty result; the pass goes on to save.
AfterQuery_NoEarlyReturn(t, rows) ==
  [t EXCEPT !.new_interactions = rows,
            !.user_id_to_index = t.existing_checkpoint.user_id_to_index,
            !.item_id_to_index = t.existing_checkpoint.item_id_to_index,
            !.num_users = t.existing_checkpoint.num_users,
            !.num_items = t.existing_checkpoint.num_items,
            !.current_max_user_idx = t.existing_checkpoint.num_users - 1,
            !.current_max_item_idx = t.existing_checkpoint.num_items - 1,
            !.k = 1,
            !.pc = IF Len(rows) = 0 THEN "save" ELSE "map"]

AfterQuery(t, rows) ==
  IF Len(rows) = 0
  THEN [t EXCEPT !.new_interactions = rows, !.pc = "finally"]
  ELSE IF t.existing_checkpoint.status = "malformed"
  THEN [t EXCEPT !.new_interactions = rows, !.exc = TRUE, !.pc = "except"]
  ELSE [t EXCEPT !.new_interactions = rows,
                 !.user_id_to_index = t.existing_checkpoint.user_id_to_index,
                 !.item_id_to_index = t.existing_checkpoint.item_id_to_index,
                 !.num_users = t.existing_checkpoint.num_users,
                 !.num_items = t.existing_checkpoint.num_items,
                 !.current_max_user_idx = t.existing_checkpoint.num_users - 1,
                 !.current_max_item_idx = t.existing_checkpoint.num_items - 1,
                 !.k = 1,
                 !.pc = "map"]

\* Variant: the rows are flagged as they are read.
QueryNewInteractions_MarkOnRead(p) ==
  /\ tr[p].pc = "query"
  /\ \E rows \in Orderings(UnconsumedPositive(interactions)) :
       tr' = [tr EXCEPT ![p] = AfterQuery(tr[p], rows)]
  /\ interactions' = [pr \in Pairs |->
                        IF pr \in UnconsumedPositive(interactions)
                        THEN [interactions[pr] EXCEPT !.is_trained = TRUE]
                        ELSE interactions[pr]]
  /\ UNCHANGED <<serving, user_embeddings, item_embeddings, checkpoint, history>>

QueryNewInteractions(p) ==
  /\ tr[p].pc = "query"
  /\ \E rows \in Orderings(UnconsumedPositive(interactions)) :
       tr' = [tr EXCEPT ![p] = AfterQuery(tr[p], rows)]
  /\ UNCHANGED <<serving, interactions, user_embeddings, item_embeddings, checkpoint, history>>

\* Variant: the counter is not advanced before it is handed out.
AssignIndex_NoIncrement(current_max) ==
  current_max

\* The index a stable id new to the mapping receives.
AssignIndex(current_max) ==
  current_max + 1

\* train, step 3: one turn of the loop over new_interactions.
MapInteraction(t) ==
  LET it == t.new_interactions[t.k]
      uid_str == Str(it[1])
      iid_str == Str(it[2])
      new_user == uid_str \notin DOMAIN t.user_id_to_index
      new_item == iid_str \notin DOMAIN t.item_id_to_index
      max_u == IF new_user THEN AssignIndex(t.current_max_user_idx)
                           ELSE t.current_max_user_idx
      max_i == IF new_item THEN AssignIndex(t.current_max_item_idx)
                           ELSE t.current_max_item_idx
      u_map == IF new_user THEN Put(t.user_id_to_index, uid_str, max_u)
                           ELSE t.user_id_to_index
      i_map == IF new_item THEN Put(t.item_id_to_index, iid_str, max_i)
                           ELSE t.item_id_to_index
  IN [t EXCEPT !.current_max_user_idx = max_u,
               !.current_max_item_idx = max_i,
               !.user_id_to_index = u_map,
               !.item_id_to_index = i_map,
               !.train_data = Append(@, <<u_map[uid_str], i_map[iid_str]>>),
               !.interaction_ids_to_mark = Append(@, it),
               !.k = @ + 1,
               !.pc = IF t.k = Len(t.new_interactions) THEN "build" ELSE "map"]

\* The (kind, stable id, dense index) triples of a pair of mappings.
Bindings(user_id_to_index, item_id_to_index) ==
  {<<"user", ParseInt(s), user_id_to_index[s]>> : s \in DOMAIN user_id_to_index}
  \cup {<<"item", ParseInt(s), item_id_to_index[s]>> : s \in DOMAIN item_id_to_index}

MapIds(p) ==
  /\ tr[p].pc = "map"
  /\ tr[p].k <= Len(tr[p].new_interactions)
  /\ tr' = [tr EXCEPT ![p] = MapInteraction(tr[p])]
  /\ UNCHANGED <<serving, interactions, user_embeddings, item_embeddings, checkpoint, history>>

\* Variant: a table of another length keeps its fresh rows.
LoadAndResizeTensor_NoCopy(old_tensor, new_tensor) ==
  IF Len(old_tensor) # Len(new_tensor) THEN new_tensor ELSE old_tensor

\* _load_and_resize_model on one embedding table ((N, dim) tensors of equal dim):
\* a table of another length has its first min(n_old, n_new) rows copied over the
\* fresh ones, a table of the same shape replaces the fresh one.
LoadAndResizeTensor(old_tensor, new_tensor) ==
  IF Len(old_tensor) # Len(new_tensor)
  THEN [i \in 1..Len(new_tensor) |->
          IF i <= Min(Len(old_tensor), Len(new_tensor)) THEN old_tensor[i]
                                                        ELSE new_tensor[i]]
  ELSE old_tensor

LoadAndResizeModel(model, ckpt) ==
  [user_embedding |-> LoadAndResizeTensor(ckpt.user_embedding, model.user_embedding),
   item_embedding |-> LoadAndResizeTensor(ckpt.item_embedding, model.item_embedding)]

\* _load_and_resize_model on tables of another width than the new model's: the
\* slice assignment new_tensor[:n_copy, :] = old_tensor[:n_copy, :] (tables of
\* another length) or load_state_dict (tables of the same length) raises.
WidthMismatch(ckpt, dim) ==
  ckpt.status = "ok" /\ ckpt.embedding_dim # dim

\* train, step 4: NeMF(new_num_users, new_num_items) with randomly initialised
\* rows, then the checkpoint's weights when there is a checkpoint.
BuildModel(p) ==
  /\ tr[p].pc = "build"
  /\ LET t == tr[p]
         new_num_users == t.current_max_user_idx + 1
         new_num_items == t.current_max_item_idx + 1
         fresh == [user_embedding |-> FreshRows(new_num_users),
                   item_embedding |-> FreshRows(new_num_items)]
         model == IF t.existing_checkpoint.status = "ok"
                  THEN LoadAndResizeModel(fresh, t.existing_checkpoint)
                  ELSE fresh
     IN tr' = IF WidthMismatch(t.existing_checkpoint, embedding_dim)
              THEN [tr EXCEPT ![p].model = fresh, ![p].exc = TRUE, ![p].pc = "except"]
              ELSE [tr EXCEPT ![p].model = model, ![p].epoch = 0, ![p].pc = "epoch"]
  /\ UNCHANGED <<serving, interactions, user_embeddings, item_embeddings, checkpoint, history>>

\* Variant: the count is not forced to 1.
NumBatches_NoFloor(n, bs) ==
  n \div bs

\* num_batches = len(train_data) // batch_size, forced to 1 when that is 0.
NumBatches(n, bs) ==
  IF n \div bs = 0 THEN 1 ELSE n \div bs

\* The positions (1-based) of the shuffled train_data that the batches of one
\* epoch slice out: batch i is [i*bs, min((i+1)*bs, n)).
BatchPositions(n, bs) ==
  {j \in 1..n : \E i \in 0..(NumBatches(n, bs) - 1) :
                   i * bs < j /\ j <= Min((i + 1) * bs, n)}

\* nn.Embedding raises IndexError on an index outside its table.
ValidPair(model, pair) ==
  /\ pair[1] >= 0 /\ pair[1] < Len(model.user_embedding)
  /\ pair[2] >= 0 /\ pair[2] < Len(model.item_embedding)

\* The rows of a table at the dense indices in `now` and not in `before` moved.
MoveRows(table, before, now) ==
  [i \in 1..Len(table) |-> IF (i - 1) \in now /\ (i - 1) \notin before
                            THEN Moved(table[i]) ELSE table[i]]

\* train, step 5: one epoch: shuffle, the batches, one negative item per pair
\* drawn from the whole item range, one gradient step per batch.  A step moves
\* the user and item rows of its pairs and the rows of its negatives.
TrainEpoch(p) ==
  /\ tr[p].pc = "epoch"
  /\ tr[p].epoch < epochs
  /\ \E shuffled \in Shuffles(tr[p].train_data) :
       LET t == tr[p]
           n == Len(shuffled)
           used == BatchPositions(n, batch_size)
           new_num_items == t.current_max_item_idx + 1
       IN IF \E j \in used : ~ValidPair(t.model, shuffled[j])
          THEN tr' = [tr EXCEPT ![p].train_data = shuffled, ![p].exc = TRUE,
                                ![p].pc = "except"]
          ELSE \E j_batch \in SUBSET (0..(new_num_items - 1)) :
                 /\ (j_batch = {}) <=> (used = {})
                 /\ Cardinality(j_batch) <= Cardinality(used)
                 /\ LET users == t.touched_users \cup {shuffled[j][1] : j \in used}
                        items == t.touched_items \cup {shuffled[j][2] : j \in used} \cup j_batch
                    IN tr' = [tr EXCEPT
                         ![p].train_data = shuffled,
                         ![p].touched_users = users,
                         ![p].touched_items = items,
                         ![p].model = [user_embedding |->
                                         MoveRows(t.model.user_embedding, t.touched_users, users),
                                       item_embedding |->
                                         MoveRows(t.model.item_embedding, t.touched_items, items)],
                         ![p].steps = @ + NumBatches(n, batch_size),
                         ![p].epoch = @ + 1,
                         ![p].pc = IF t.epoch + 1 = epochs THEN "mark" ELSE "epoch"]
  /\ UNCHANGED <<serving, interactions, user_embeddings, item_embeddings, checkpoint, history>>

\* _mark_as_trained: interaction_ids[i : i + chunk_size]
Chunk(ids, i) ==
  {ids[j] : j \in (i + 1)..Min(i + chunk_size, Len(ids))}

\* Variant: every chunk is committed as soon as its UPDATE is executed.
MarkChunk_CommitEach(p) ==
  /\ tr[p].pc = "mark"
  /\ tr[p].mark_i < Len(tr[p].interaction_ids_to_mark)
  /\ interactions' = [pr \in Pairs |->
                        IF pr \in Chunk(tr[p].interaction_ids_to_mark, tr[p].mark_i)
                           /\ interactions[pr].present
                        THEN [interactions[pr] EXCEPT !.is_trained = TRUE]
                        ELSE interactions[pr]]
  /\ tr' = [tr EXCEPT ![p].mark_i = @ + chunk_size]
  /\ UNCHANGED <<serving, user_embeddings, item_embeddings, checkpoint, history>>

\* _mark_as_trained, one turn of the loop: the UPDATE of one chunk is executed in
\* the session's open transaction, on the rows that are under the keys of the
\* chunk at that time (they stay locked until the transaction ends).
MarkChunk(p) ==
  /\ tr[p].pc = "mark"
  /\ tr[p].mark_i < Len(tr[p].interaction_ids_to_mark)
  /\ tr' = [tr EXCEPT ![p].pending_marks =
                        @ \cup {pr \in Chunk(tr[p].interaction_ids_to_mark, tr[p].mark_i) :
                                  interactions[pr].present},
                      ![p].mark_i = @ + chunk_size]
  /\ UNCHANGED <<serving, interactions, user_embeddings, item_embeddings, checkpoint, history>>

\* Variant: the UPDATE has no WHERE clause on the ids.
MarkedTable_AllRows(table, ids) ==
  [pr \in Pairs |-> IF table[pr].present
                    THEN [table[pr] EXCEPT !.is_trained = TRUE]
                    ELSE table[pr]]

\* UPDATE ... WHERE (user_id, coordi_id) IN ids SET is_trained = true, committed.
MarkedTable(table, ids) ==
  [pr \in Pairs |-> IF pr \in ids /\ table[pr].present
                    THEN [table[pr] EXCEPT !.is_trained = TRUE]
                    ELSE table[pr]]

\* _mark_as_trained: self.db.commit() after the loop.
MarkCommit(p) ==
  /\ tr[p].pc = "mark"
  /\ tr[p].mark_i >= Len(tr[p].interaction_ids_to_mark)
  /\ interactions' = MarkedTable(interactions, tr[p].pending_marks)
  /\ tr' = [tr EXCEPT ![p].pending_marks = {}, ![p].marked = "committed",
                      ![p].pc = "publish"]
  /\ UNCHANGED <<serving, user_embeddings, item_embeddings, checkpoint, history>>

\* _mark_as_trained: an UPDATE or the commit raises; the handler logs, rolls the
\* transaction back and returns to train.
MarkFail(p) ==
  /\ tr[p].pc = "mark"
  /\ tr' = [tr EXCEPT ![p].pending_marks = {}, ![p].marked = "rolled back",
                      ![p].pc = "publish"]
  /\ UNCHANGED <<serving, interactions, user_embeddings, item_embeddings, checkpoint, history>>

\* user_map_int / item_map_int: {int(k): v for k, v in mapping.items()}
IntKeys(mapping) ==
  [id \in {ParseInt(s) : s \in DOMAIN mapping} |-> mapping[Str(id)]]

\* Variant: only the 'night_v1' label is written.
Upserted_NightOnly(table, versions, map_int, weights) ==
  [key \in DOMAIN table |->
     IF key[1] \in DOMAIN map_int /\ key[2] \in versions \cap {"night_v1"}
     THEN RowAt(weights, map_int[key[1]])
     ELSE table[key]]

\* _upsert_user / _upsert_item for every entry of a mapping, under each version.
Upserted(table, versions, map_int, weights) ==
  [key \in DOMAIN table |->
     IF key[1] \in DOMAIN map_int /\ key[2] \in versions
     THEN RowAt(weights, map_int[key[1]])
     ELSE table[key]]

\* Variant: the checkpoint is written in the same step as the embeddings.
SaveEmbeddings_WithCheckpoint(p) ==
  /\ tr[p].pc = "publish"
  /\ LET t == tr[p]
         user_map == IntKeys(t.user_id_to_index)
         item_map == IntKeys(t.item_id_to_index)
     IN /\ \A id \in DOMAIN user_map : InRange(t.model.user_embedding, user_map[id])
        /\ \A id \in DOMAIN item_map : InRange(t.model.item_embedding, item_map[id])
        /\ user_embeddings' = Upserted(user_embeddings, {"night_v1", "day_v1"}, user_map,
                                       t.model.user_embedding)
        /\ item_embeddings' = Upserted(item_embeddings, {"night_v1"}, item_map,
                                       t.model.item_embedding)
  /\ checkpoint' = CheckpointDict(tr[p].model, tr[p].user_id_to_index,
                                  tr[p].item_id_to_index, embedding_dim)
  /\ history' = history \cup Bindings(tr[p].user_id_to_index, tr[p].item_id_to_index)
  /\ tr' = [tr EXCEPT ![p].published = "committed", ![p].pc = "save"]
  /\ UNCHANGED <<serving, interactions>>

\* save_embeddings, all upserts done and committed.
SaveEmbeddings(p) ==
  /\ tr[p].pc = "publish"
  /\ LET t == tr[p]
         user_map == IntKeys(t.user_id_to_index)
         item_map == IntKeys(t.item_id_to_index)
     IN /\ \A id \in DOMAIN user_map : InRange(t.model.user_embedding, user_map[id])
        /\ \A id \in DOMAIN item_map : InRange(t.model.item_embedding, item_map[id])
        /\ user_embeddings' = Upserted(user_embeddings, {"night_v1", "day_v1"}, user_map,
                                       t.model.user_embedding)
        /\ item_embeddings' = Upserted(item_embeddings, {"night_v1"}, item_map,
                                       t.model.item_embedding)
  /\ history' = history \cup Bindings(tr[p].user_id_to_index, tr[p].item_id_to_index)
  /\ tr' = [tr EXCEPT ![p].published = "committed", ![p].pc = "save"]
  /\ UNCHANGED <<serving, interactions, checkpoint>>

\* Variant: the upserts done before the failing one stay (the user rows), and
\* the failure leaves train.
SaveEmbeddingsFail_PartialAbort(p) ==
  /\ tr[p].pc = "publish"
  /\ user_embeddings' = [key \in DOMAIN user_embeddings |->
                           IF Str(key[1]) \in DOMAIN tr[p].user_id_to_index
                           THEN RowAt(tr[p].model.user_embedding,
                                      tr[p].user_id_to_index[Str(key[1])])
                           ELSE user_embeddings[key]]
  /\ tr' = [tr EXCEPT ![p].published = "rolled back", ![p].exc = TRUE, ![p].pc = "except"]
  /\ UNCHANGED <<serving, interactions, item_embeddings, checkpoint, history>>

\* save_embeddings: an upsert or the commit raises (a store failure, an index
\* outside the weight list); rollback, logged, back to train.
SaveEmbeddingsFail(p) ==
  /\ tr[p].pc = "publish"
  /\ tr' = [tr EXCEPT ![p].published = "rolled back", ![p].pc = "save"]
  /\ UNCHANGED <<serving, interactions, user_embeddings, item_embeddings, checkpoint, history>>

\* Variant: the checkpoint is written where the embeddings are published, and
\* train returns.
SaveCheckpoint_First(p) ==
  /\ tr[p].pc = "publish"
  /\ checkpoint' = CheckpointDict(tr[p].model, tr[p].user_id_to_index,
                                  tr[p].item_id_to_index, embedding_dim)
  /\ history' = history \cup Bindings(tr[p].user_id_to_index, tr[p].item_id_to_index)
  /\ tr' = [tr EXCEPT ![p].saved = "written", ![p].pc = "finally"]
  /\ UNCHANGED <<serving, interactions, user_embeddings, item_embeddings>>

\* save_checkpoint: torch.save succeeded; train returns.
SaveCheckpoint(p) ==
  /\ tr[p].pc = "save"
  /\ checkpoint' = CheckpointDict(tr[p].model, tr[p].user_id_to_index,
                                  tr[p].item_id_to_index, embedding_dim)
  /\ history' = history \cup Bindings(tr[p].user_id_to_index, tr[p].item_id_to_index)
  /\ tr' = [tr EXCEPT ![p].saved = "written", ![p].pc = "finally"]
  /\ UNCHANGED <<serving, interactions, user_embeddings, item_embeddings>>

\* save_checkpoint: torch.save raises and the handler logs it.  torch.save writes
\* the target in place: the file is left as it was (nothing written yet) or
\* truncated (unreadable).
SaveCheckpointFail(p) ==
  /\ tr[p].pc = "save"
  /\ checkpoint' \in {checkpoint, CorruptCheckpoint}
  /\ tr' = [tr EXCEPT ![p].saved = "failed", ![p].pc = "finally"]
  /\ UNCHANGED <<serving, interactions, user_embeddings, item_embeddings, history>>

\* The places of train where a statement outside any try block can raise: the
\* query, the model construction and weight loading, the training loop, the
\* weight extraction of save_embeddings, os.makedirs of save_checkpoint.
RaisingPcs == {"query", "build", "epoch", "publish", "save"}

Raise(p) ==
  /\ tr[p].pc \in RaisingPcs
  /\ tr' = [tr EXCEPT ![p].exc = TRUE, ![p].pc = "except"]
  /\ UNCHANGED <<serving, interactions, user_embeddings, item_embeddings, checkpoint, history>>

\* Variant: the handler logs and raises again.
ExceptHandler_Reraise(t) ==
  [t EXCEPT !.pc = "finally"]

\* run_night_training: except Exception as e: logger.error(...); print_exc()
ExceptHandler(t) ==
  [t EXCEPT !.exc = FALSE, !.caught = TRUE, !.pc = "finally"]

HandleException(p) ==
  /\ tr[p].pc = "except"
  /\ tr' = [tr EXCEPT ![p] = ExceptHandler(tr[p])]
  /\ UNCHANGED <<serving, interactions, user_embeddings, item_embeddings, checkpoint, history>>

\* run_night_training: finally: db.close(); then the function is left, normally
\* or by the exception still in flight.
Finally(p) ==
  /\ tr[p].pc = "finally"
  /\ tr' = [tr EXCEPT ![p] = [TrainerLocals("idle") EXCEPT
                                !.session = "closed",
                                !.caught = tr[p].caught,
                                !.exit = IF tr[p].exc THEN "propagated" ELSE "returned"]]
  /\ UNCHANGED <<serving, interactions, user_embeddings, item_embeddings, checkpoint, history>>

\* The process dies in the middle of a pass: the locals and the open transaction
\* are lost; a checkpoint write in progress may leave a truncated file.
Crash(p) ==
  /\ tr[p].pc \notin {"idle", "off"}
  /\ tr' = [tr EXCEPT ![p] = [TrainerLocals("idle") EXCEPT !.exit = "crashed"]]
  /\ checkpoint' \in (IF tr[p].pc = "save" THEN {checkpoint, CorruptCheckpoint}
                                           ELSE {checkpoint})
  /\ UNCHANGED <<serving, interactions, user_embeddings, item_embeddings, history>>

---------------------------------------------------------------------------
\* Other writers of the interaction table (the outfit endpoints).

NumRows(table) == Cardinality({pr \in Pairs : table[pr].present})

\* How many rows have been deleted so far (gen of a key counts the rows that
\* were deleted under it: the row that follows is another row).
Removals(table) == Cardinality({pr \in Pairs : table[pr].gen > 0})

\* A new row under a key that has none; MaxRows bounds the rows ever created.
AddInteraction(u, c, a) ==
  /\ ~interactions[<<u, c>>].present
  /\ NumRows(interactions) + Removals(interactions) < MaxRows
  /\ interactions' = [interactions EXCEPT ![<<u, c>>] =
                        [present |-> TRUE, action_type |-> a, is_trained |-> FALSE,
                         gen |-> interactions[<<u, c>>].gen]]
  /\ UNCHANGED <<serving, user_embeddings, item_embeddings, checkpoint, tr, history>>

\* DELETE /{outfit_id}/favorite: a like is taken back and its row is gone (the
\* outfit can be skipped or liked anew afterwards, as a new row).  A row that an
\* open transaction has updated cannot be deleted before that transaction ends.
RemoveInteraction(u, c) ==
  /\ interactions[<<u, c>>].present
  /\ interactions[<<u, c>>].action_type = "like"
  /\ \A p \in Trainers : <<u, c>> \notin tr[p].pending_marks
  /\ Removals(interactions) < MaxRemovals
  /\ interactions' = [interactions EXCEPT ![<<u, c>>] = [NoRow EXCEPT !.gen = 1]]
  /\ UNCHANGED <<serving, user_embeddings, item_embeddings, checkpoint, tr, history>>

---------------------------------------------------------------------------
\* The model class NeMF (app/ml/neumf_model.py): forward(user, item) gives a
\* probability; here a level computed from the two embedding rows.
NeMFForward(user_row, item_row) ==
  (user_row + item_row) % (MaxStamp + 1)

\* -np.inf, below every level.
NegInf == -1

---------------------------------------------------------------------------
\* WarmRecommendationService.

\* __init__ before load_model.
NewService ==
  [constructed |-> TRUE, is_ready |-> FALSE, has_model |-> FALSE,
   user_id_to_index |-> EmptyMap, item_id_to_index |-> EmptyMap,
   index_to_item_id |-> EmptyMap, model |-> NoModel]

NoService == [NewService EXCEPT !.constructed = FALSE]

\* {v: k for k, v in item_id_to_index.items()}
Inverse(mapping) ==
  [v \in {mapping[k] : k \in DOMAIN mapping} |->
     CHOOSE k \in DOMAIN mapping : mapping[k] = v]

\* load_model: a missing file is a warning, a file torch.load cannot read is an
\* error caught and logged; either way the service stays not ready.  A state
\* dict whose tables are not of the recorded sizes makes load_state_dict raise
\* after the mappings and the fresh model are already in place.
LoadModel(self, file) ==
  IF file.status # "ok"
  THEN self
  ELSE IF Len(file.user_embedding) # file.num_users \/ Len(file.item_embedding) # file.num_items
  THEN [self EXCEPT !.user_id_to_index = file.user_id_to_index,
                    !.item_id_to_index = file.item_id_to_index,
                    !.index_to_item_id = Inverse(file.item_id_to_index),
                    !.model = [user_embedding |-> FreshRows(file.num_users),
                               item_embedding |-> FreshRows(file.num_items)],
                    !.has_model = TRUE,
                    !.is_ready = FALSE]
  ELSE [self EXCEPT !.user_id_to_index = file.user_id_to_index,
                    !.item_id_to_index = file.item_id_to_index,
                    !.index_to_item_id = Inverse(file.item_id_to_index),
                    !.model = [user_embedding |-> file.user_embedding,
                               item_embedding |-> file.item_embedding],
                    !.has_model = TRUE,
                    !.is_ready = TRUE]

\* get_warm_recommendation_service: the first call constructs the instance from
\* the checkpoint file; later calls return it as it is.
GetWarmRecommendationService ==
  /\ ~svc.constructed
  /\ svc' = LoadModel(NewService, checkpoint)
  /\ UNCHANGED <<training, interactions, user_embeddings, item_embeddings, checkpoint, rq>>

\* The paths a caller can pass: none (the default path, where the trainer writes
\* its checkpoint) or a path where there is no file.
ModelPaths == {"default", "elsewhere"}

FileAt(model_path, file) ==
  IF model_path = "default" THEN file ELSE AbsentCheckpoint

\* Variant: every call constructs and loads.
GetInstance_Reload(instance, file) ==
  LoadModel(NewService, file)

\* get_warm_recommendation_service: _warm_service_instance is constructed when it
\* is None and returned as it is otherwise.
GetInstance(instance, file) ==
  IF ~instance.constructed THEN LoadModel(NewService, file) ELSE instance

\* get_warm_recommendation_service(model_path), the first call or a later one.
GetWarmRecommendationServiceAt(model_path) ==
  /\ svc' = GetInstance(svc, FileAt(model_path, checkpoint))
  /\ UNCHANGED <<training, interactions, user_embeddings, item_embeddings, checkpoint, rq>>

RequestLocals(pc) ==
  [pc |-> pc, user_id |-> 0, page |-> 0, limit |-> 0, user_idx |-> 0,
   \* how step 2 went: "absent" (no day_v1 vector), "done", "failed"
   injected |-> "none",
   result |-> <<>>, total |-> 0]

\* recommend: if not self.is_ready or not self.model
ServiceReady(self) ==
  self.is_ready /\ self.has_model

\* Variant: the membership test is missing.
UserInIndex_Always(self, user_id) ==
  TRUE

\* recommend: user_id_str in self.user_id_to_index
UserInIndex(self, user_id) ==
  Str(user_id) \in DOMAIN self.user_id_to_index

\* recommend up to user_idx: the two early returns of ([], 0), then the lookup
\* (a KeyError when the key is missing).
RecommendBegin(r, user_id, page, limit) ==
  /\ rq[r].pc \in {"idle", "done"}
  /\ svc.constructed
  /\ LET q == [RequestLocals("start") EXCEPT !.user_id = user_id, !.page = page,
                                             !.limit = limit]
     IN rq' = [rq EXCEPT ![r] =
          IF ~ServiceReady(svc) THEN [q EXCEPT !.pc = "done"]
          ELSE IF ~UserInIndex(svc, user_id) THEN [q EXCEPT !.pc = "done"]
          ELSE IF Str(user_id) \notin DOMAIN svc.user_id_to_index
               THEN [q EXCEPT !.pc = "raised"]
          ELSE [q EXCEPT !.pc = "inject",
                         !.user_idx = svc.user_id_to_index[Str(user_id)]]]
  /\ UNCHANGED <<training, interactions, user_embeddings, item_embeddings, checkpoint, svc>>

\* Variant: the vector is written over the first row of the table.
RecommendInject_FirstRow(r) ==
  /\ rq[r].pc = "inject"
  /\ LET vector == user_embeddings[<<rq[r].user_id, "day_v1">>]
     IN svc' = IF vector = NoVec
               THEN svc
               ELSE [svc EXCEPT !.model.user_embedding[1] = vector]
  /\ rq' = [rq EXCEPT ![r].injected = IF user_embeddings[<<rq[r].user_id, "day_v1">>] = NoVec
                                       THEN "absent" ELSE "done",
                      ![r].pc = "score"]
  /\ UNCHANGED <<training, interactions, user_embeddings, item_embeddings, checkpoint>>

\* recommend, step 2: the 'day_v1' row of the user, when there is one, is written
\* over the user's row of the shared model.
RecommendInject(r) ==
  /\ rq[r].pc = "inject"
  /\ LET vector == user_embeddings[<<rq[r].user_id, "day_v1">>]
     IN svc' = IF vector = NoVec
               THEN svc
               ELSE [svc EXCEPT !.model.user_embedding[rq[r].user_idx + 1] = vector]
  /\ rq' = [rq EXCEPT ![r].injected = IF user_embeddings[<<rq[r].user_id, "day_v1">>] = NoVec
                                       THEN "absent" ELSE "done",
                      ![r].pc = "score"]
  /\ UNCHANGED <<training, interactions, user_embeddings, item_embeddings, checkpoint>>

\* recommend, step 2 when the injection raises: logged, the row is left alone.
RecommendInjectFail(r) ==
  /\ rq[r].pc = "inject"
  /\ user_embeddings[<<rq[r].user_id, "day_v1">>] # NoVec
  /\ rq' = [rq EXCEPT ![r].injected = "failed", ![r].pc = "score"]
  /\ UNCHANGED <<training, interactions, user_embeddings, item_embeddings, checkpoint, svc>>

\* recommend, step 3: the user against every item index, as a list by index.
Scores(self, user_idx) ==
  [i \in 1..Len(self.model.item_embedding) |->
     NeMFForward(RowAt(self.model.user_embedding, user_idx), self.model.item_embedding[i])]

\* The dense indices of the coordi_ids of the user's interaction rows that the
\* item index knows.
SeenIndices(self, table, user_id) ==
  {self.item_id_to_index[Str(c)] :
     c \in {c \in Items : table[<<user_id, c>>].present
                          /\ Str(c) \in DOMAIN self.item_id_to_index}}

\* Variant: the seen items are not masked.
MaskSeen_Nothing(scores, seen_indices) ==
  scores

\* scores[seen_indices] = -np.inf
MaskSeen(scores, seen_indices) ==
  [i \in DOMAIN scores |-> IF (i - 1) \in seen_indices THEN NegInf ELSE scores[i]]

\* Variant: the [::-1] is missing.
ArgsortReversed_Ascending(scores) ==
  {[k \in DOMAIN f |-> f[k] - 1] :
     f \in {g \in Orderings(DOMAIN scores) :
              \A a, b \in DOMAIN g : a < b => scores[g[a]] <= scores[g[b]]}}

\* np.argsort(scores)[::-1]: the indices by score, highest first.  The default
\* sort kind is not stable, so equal scores may come in either order.
ArgsortReversed(scores) ==
  {[k \in DOMAIN f |-> f[k] - 1] :
     f \in {g \in Orderings(DOMAIN scores) :
              \A a, b \in DOMAIN g : a < b => scores[g[a]] >= scores[g[b]]}}

\* Variant: the total is the catalog size.
ValidCount_All(scores) ==
  Len(scores)

\* np.count_nonzero(scores != -np.inf)
ValidCount(scores) ==
  Cardinality({i \in DOMAIN scores : scores[i] # NegInf})

\* seq[lo:hi] of a Python sequence, 0 <= lo <= hi.
Slice(seq, lo, hi) ==
  SubSeq(seq, lo + 1, Min(hi, Len(seq)))

\* Variant: the check on -inf is missing.
Translate_KeepMasked(self, scores, top_indices) ==
  LET Keep(idx) == idx \in DOMAIN self.index_to_item_id
      kept == SelectSeq(top_indices, Keep)
  IN [k \in DOMAIN kept |-> ParseInt(self.index_to_item_id[kept[k]])]

\* recommend, step 5: the indices whose score is not -inf, as item ids.
Translate(self, scores, top_indices) ==
  LET Keep(idx) == scores[idx + 1] # NegInf /\ idx \in DOMAIN self.index_to_item_id
      kept == SelectSeq(top_indices, Keep)
  IN [k \in DOMAIN kept |-> ParseInt(self.index_to_item_id[kept[k]])]

\* recommend, steps 4-5 for one outcome of the argsort: the page of item ids.
PageOf(self, scores, sorted_indices, page, limit) ==
  LET offset == (page - 1) * limit
  IN IF offset >= ValidCount(scores)
     THEN <<>>
     ELSE Translate(self, scores, Slice(sorted_indices, offset, offset + limit))

\* recommend, steps 3-5.
RecommendScore(r) ==
  /\ rq[r].pc = "score"
  /\ LET q == rq[r]
         scores == MaskSeen(Scores(svc, q.user_idx), SeenIndices(svc, interactions, q.user_id))
         offset == (q.page - 1) * q.limit
         total_items == ValidCount(scores)
     IN \E sorted_indices \in ArgsortReversed(scores) :
          rq' = [rq EXCEPT ![r] =
            IF offset >= total_items
            THEN [q EXCEPT !.pc = "done", !.result = <<>>, !.total = total_items]
            ELSE [q EXCEPT !.pc = "done",
                           !.result = Translate(svc, scores,
                                                Slice(sorted_indices, offset, offset + q.limit)),
                           !.total = total_items]]
  /\ UNCHANGED <<training, interactions, user_embeddings, item_embeddings, checkpoint, svc>>

---------------------------------------------------------------------------
Init ==
  /\ interactions = [pr \in Pairs |-> NoRow]
  /\ user_embeddings = [key \in Users \X UserVersions |-> NoVec]
  /\ item_embeddings = [key \in Items \X ItemVersions |-> NoVec]
  /\ checkpoint = AbsentCheckpoint
  /\ tr = [p \in Trainers |-> IF p = "t1" THEN TrainerLocals("idle") ELSE TrainerLocals("off")]
  /\ history = {}
  /\ svc = NoService
  /\ rq = [r \in Requests |-> RequestLocals("off")]

TrainerStep(p) ==
  \/ RunNightTraining(p)
  \/ LoadCheckpoint(p)
  \/ QueryNewInteractions(p)
  \/ MapIds(p)
  \/ BuildModel(p)
  \/ TrainEpoch(p)
  \/ MarkChunk(p)
  \/ MarkCommit(p)
  \/ MarkFail(p)
  \/ SaveEmbeddings(p)
  \/ SaveEmbeddingsFail(p)
  \/ SaveCheckpoint(p)
  \/ SaveCheckpointFail(p)
  \/ Raise(p)
  \/ HandleException(p)
  \/ Finally(p)
  \/ Crash(p)

Next ==
  \/ \E p \in Trainers : TrainerStep(p)
  \/ \E u \in Users, c \in Items, a \in ActionTypes : AddInteraction(u, c, a)
  \/ \E u \in Users, c \in Items : RemoveInteraction(u, c)

Spec == Init /\ [][Next]_vars

---------------------------------------------------------------------------
\* The trainer over a checkpoint file it did not write itself: none, a file of
\* another dictionary, a checkpoint of a model of another embedding width.

\* A checkpoint of one user and one item written with half the width.
NarrowCheckpoint ==
  CheckpointDict([user_embedding |-> FreshRows(1), item_embedding |-> FreshRows(1)],
                 Put(EmptyMap, Str(1), 0), Put(EmptyMap, Str(1), 0), embedding_dim \div 2)

ResumeInit ==
  /\ interactions = [pr \in Pairs |-> NoRow]
  /\ user_embeddings = [key \in Users \X UserVersions |-> NoVec]
  /\ item_embeddings = [key \in Items \X ItemVersions |-> NoVec]
  /\ checkpoint \in {AbsentCheckpoint, MalformedCheckpoint, NarrowCheckpoint}
  /\ tr = [p \in Trainers |-> IF p = "t1" THEN TrainerLocals("idle") ELSE TrainerLocals("off")]
  /\ history = {}
  /\ svc = NoService
  /\ rq = [r \in Requests |-> RequestLocals("off")]

ResumeNext ==
  \/ \E p \in Trainers : TrainerStep(p)
  \/ \E u \in Users, c \in Items : AddInteraction(u, c, "like")

SpecResume == ResumeInit /\ [][ResumeNext]_vars

---------------------------------------------------------------------------
\* The inference service on its own: the checkpoint file is any file a training
\* pass can have left, the published user vectors are any, and requests arrive
\* while interactions are being recorded.

\* The one-to-one mappings of a set of stable ids onto 0..n-1.
IndexMaps(ids) ==
  UNION {{[s \in {Str(id) : id \in S} |-> f[ParseInt(s)]] :
            f \in {g \in [S -> 0..(Cardinality(S) - 1)] :
                     \A a, b \in S : g[a] = g[b] => a = b}} :
         S \in (SUBSET ids) \ {{}}}

SavedCheckpoints ==
  UNION {{CheckpointDict([user_embedding |-> FreshRows(Cardinality(DOMAIN um)),
                           item_embedding |-> ie], um, im, embedding_dim) :
            ie \in [1..Cardinality(DOMAIN im) -> EmbVals]} :
         um \in IndexMaps(Users), im \in IndexMaps(Items)}

RecInit ==
  /\ interactions = [pr \in Pairs |-> NoRow]
  /\ \E day \in [Users -> {NoVec, MaxStamp}] :
       user_embeddings = [key \in Users \X UserVersions |-> day[key[1]]]
  /\ item_embeddings = [key \in Items \X ItemVersions |-> NoVec]
  /\ checkpoint \in SavedCheckpoints \cup {AbsentCheckpoint, CorruptCheckpoint}
  /\ tr = [p \in Trainers |-> TrainerLocals("off")]
  /\ history = {}
  /\ svc = NoService
  /\ rq = [r \in Requests |-> IF r = "r1" THEN RequestLocals("idle") ELSE RequestLocals("off")]

RequestStep(r) ==
  \/ \E u \in Users, page \in 1..MaxPage, limit \in 1..MaxLimit : RecommendBegin(r, u, page, limit)
  \/ RecommendInject(r)
  \/ RecommendInjectFail(r)
  \/ RecommendScore(r)

RecNext ==
  \/ GetWarmRecommendationService
  \/ \E r \in Requests : RequestStep(r)
  \/ \E u \in Users, c \in Items, a \in ActionTypes : AddInteraction(u, c, a)

SpecRec == RecInit /\ [][RecNext]_vars

---------------------------------------------------------------------------
\* Two requests at a time against the one service instance: the steps of the
\* two calls of recommend interleave in every way.  The checkpoint knows every
\* user, and a published 'day_v1' vector tells whose it is.

\* The 'day_v1' vector published for user u.
DayVector(u) == MaxStamp + u

ConcInit ==
  /\ interactions = [pr \in Pairs |-> NoRow]
  /\ \E has \in [Users -> BOOLEAN] :
       user_embeddings = [key \in Users \X UserVersions |->
                            IF has[key[1]] THEN DayVector(key[1]) ELSE NoVec]
  /\ item_embeddings = [key \in Items \X ItemVersions |-> NoVec]
  /\ checkpoint \in {c \in SavedCheckpoints : DOMAIN c.user_id_to_index = {Str(u) : u \in Users}}
  /\ tr = [p \in Trainers |-> TrainerLocals("off")]
  /\ history = {}
  /\ svc = NoService
  /\ rq = [r \in Requests |-> RequestLocals("idle")]

ConcNext ==
  \/ GetWarmRecommendationService
  \/ \E r \in Requests :
       \/ \E u \in Users : RecommendBegin(r, u, 1, MaxLimit)
       \/ RecommendInject(r)
       \/ RecommendInjectFail(r)
       \/ RecommendScore(r)

SpecConc == ConcInit /\ [][ConcNext]_vars

---------------------------------------------------------------------------
\* Two scheduler jobs with nothing to keep them apart: the steps of two passes
\* interleave in every way.  Of the failures of a pass only the swallowed one of
\* the checkpoint write is followed here.

OverlapInit ==
  /\ interactions = [pr \in Pairs |-> NoRow]
  /\ user_embeddings = [key \in Users \X UserVersions |-> NoVec]
  /\ item_embeddings = [key \in Items \X ItemVersions |-> NoVec]
  /\ checkpoint = AbsentCheckpoint
  /\ tr = [p \in Trainers |-> TrainerLocals("idle")]
  /\ history = {}
  /\ svc = NoService
  /\ rq = [r \in Requests |-> RequestLocals("off")]

OverlapStep(p) ==
  \/ RunNightTraining(p)
  \/ LoadCheckpoint(p)
  \/ QueryNewInteractions(p)
  \/ MapIds(p)
  \/ BuildModel(p)
  \/ TrainEpoch(p)
  \/ MarkChunk(p)
  \/ MarkCommit(p)
  \/ SaveEmbeddings(p)
  \/ SaveCheckpoint(p)
  \/ SaveCheckpointFail(p)
  \/ Finally(p)

OverlapNext ==
  \/ \E p \in Trainers : OverlapStep(p)
  \/ \E u \in Users : AddInteraction(u, u, "like")

SpecOverlap == OverlapInit /\ [][OverlapNext]_vars

---------------------------------------------------------------------------
\* The epoch loop of train on its own, for any number of pairs and any batch
\* size: train_data lists the pairs by their position in interaction_ids_to_mark;
\* `used` collects the pairs that were in a batch of a gradient step.

BatchLocals(n, bs) ==
  [pc |-> "epoch", batch_size |-> bs, epoch |-> 0,
   train_data |-> [j \in 1..n |-> j],
   interaction_ids_to_mark |-> [j \in 1..n |-> j],
   used |-> {}, marked |-> {}]

BatchInit ==
  /\ interactions = [pr \in Pairs |-> NoRow]
  /\ user_embeddings = [key \in Users \X UserVersions |-> NoVec]
  /\ item_embeddings = [key \in Items \X ItemVersions |-> NoVec]
  /\ checkpoint = AbsentCheckpoint
  /\ \E n \in 1..MaxPairs, bs \in 1..MaxBatch :
       tr = [p \in Trainers |-> BatchLocals(n, bs)]
  /\ history = {}
  /\ svc = NoService
  /\ rq = [r \in Requests |-> RequestLocals("off")]

\* One turn of `for epoch in range(epochs)`: the shuffle, then the batches.
EpochBatches(p) ==
  /\ tr[p].pc = "epoch"
  /\ tr[p].epoch < epochs
  /\ \E shuffled \in Shuffles(tr[p].train_data) :
       tr' = [tr EXCEPT
                ![p].train_data = shuffled,
                ![p].used = @ \cup {shuffled[j] :
                                      j \in BatchPositions(Len(shuffled), tr[p].batch_size)},
                ![p].epoch = @ + 1,
                ![p].pc = IF tr[p].epoch + 1 = epochs THEN "mark" ELSE "epoch"]
  /\ UNCHANGED <<serving, interactions, user_embeddings, item_embeddings, checkpoint, history>>

\* self._mark_as_trained(interaction_ids_to_mark), committed.
MarkAll(p) ==
  /\ tr[p].pc = "mark"
  /\ tr' = [tr EXCEPT ![p].marked = {tr[p].interaction_ids_to_mark[j] :
                                       j \in 1..Len(tr[p].interaction_ids_to_mark)},
                      ![p].pc = "done"]
  /\ UNCHANGED <<serving, interactions, user_embeddings, item_embeddings, checkpoint, history>>

BatchNext ==
  \E p \in Trainers : EpochBatches(p) \/ MarkAll(p)

SpecBatch == BatchInit /\ [][BatchNext]_vars

---------------------------------------------------------------------------
\* The service process next to the nightly trainer: the accessor is called at
\* any time, before and after passes that overwrite the checkpoint file.

LiveNext ==
  \/ \E p \in Trainers : TrainerStep(p)
  \/ \E u \in Users, c \in Items : AddInteraction(u, c, "like")
  \/ \E model_path \in ModelPaths : GetWarmRecommendationServiceAt(model_path)

SpecLive == Init /\ [][LiveNext]_vars

---------------------------------------------------------------------------
\* Properties of the training side (specification Spec).

\* The durable state a training pass can write.
Durable == <<interactions, user_embeddings, item_embeddings, checkpoint>>

\* A mapping is one-to-one from its keys onto 0..n-1, n the number of keys.
DenseIndex(mapping) ==
  /\ {mapping[k] : k \in DOMAIN mapping} = 0..(Cardinality(DOMAIN mapping) - 1)
  /\ \A a, b \in DOMAIN mapping : mapping[a] = mapping[b] => a = b

\* C1: once a stable user or item id has been given a dense index (one that was
\* published to the embedding store or saved in a checkpoint), every later
\* resolution and every later checkpoint gives it the same index: no id is ever
\* bound to two indices.
C1_IndexStableAcrossPasses ==
  \A b1, b2 \in history : (b1[1] = b2[1] /\ b1[2] = b2[2]) => b1[3] = b2[3]

\* C2: in every saved checkpoint, and in the mappings of a pass at every point of
\* its growth, the user index and the item index are one-to-one onto 0..n-1, the
\* counter standing at the last index handed out (a new id receives counter + 1,
\* 0 for the first).
C2_SavedIndexIsDenseBijection ==
  /\ checkpoint.status = "ok" =>
       DenseIndex(checkpoint.user_id_to_index) /\ DenseIndex(checkpoint.item_id_to_index)
  /\ \A p \in Trainers :
       /\ DenseIndex(tr[p].user_id_to_index)
       /\ DenseIndex(tr[p].item_id_to_index)
       /\ tr[p].current_max_user_idx = Cardinality(DOMAIN tr[p].user_id_to_index) - 1
       /\ tr[p].current_max_item_idx = Cardinality(DOMAIN tr[p].item_id_to_index) - 1

\* A pass that loaded a one-user checkpoint has saved a two-user one.
C2_Witness ==
  \E p \in Trainers :
    /\ tr[p].pc = "finally"
    /\ tr[p].existing_checkpoint.status = "ok"
    /\ tr[p].existing_checkpoint.num_users = 1
    /\ checkpoint.status = "ok"
    /\ checkpoint.num_users = 2
    /\ checkpoint.user_id_to_index = tr[p].user_id_to_index

\* C3: in every saved checkpoint the recorded counts are the sizes of the saved
\* indexes and the row counts of the saved embedding tables, so every saved
\* dense index addresses a row.
C3_CountsMatchIndexAndTables ==
  checkpoint.status = "ok" =>
    /\ checkpoint.num_users = Cardinality(DOMAIN checkpoint.user_id_to_index)
    /\ checkpoint.num_items = Cardinality(DOMAIN checkpoint.item_id_to_index)
    /\ checkpoint.num_users = Len(checkpoint.user_embedding)
    /\ checkpoint.num_items = Len(checkpoint.item_embedding)
    /\ \A s \in DOMAIN checkpoint.user_id_to_index :
         checkpoint.user_id_to_index[s] \in 0..(Len(checkpoint.user_embedding) - 1)
    /\ \A s \in DOMAIN checkpoint.item_id_to_index :
         checkpoint.item_id_to_index[s] \in 0..(Len(checkpoint.item_embedding) - 1)

\* A pass that loaded a one-item checkpoint has resized the item table and saved
\* two rows.
C3_Witness ==
  \E p \in Trainers :
    /\ tr[p].pc = "finally"
    /\ tr[p].existing_checkpoint.status = "ok"
    /\ Len(tr[p].existing_checkpoint.item_embedding) = 1
    /\ checkpoint.status = "ok"
    /\ checkpoint.num_items = 2
    /\ Len(checkpoint.item_embedding) = 2

\* C8: run_night_training never leaves by an exception: whatever is raised inside
\* train is caught, and when the function has returned the session is closed.
C8_AlwaysReturnsNormally ==
  \A p \in Trainers :
    /\ tr[p].exit # "propagated"
    /\ tr[p].exit = "returned" => tr[p].session = "closed"

\* A pass in which an exception was raised has returned with its session closed.
C8_Witness ==
  \E p \in Trainers :
    tr[p].exit = "returned" /\ tr[p].caught /\ tr[p].session = "closed"

\* C9: a pass whose query finds no unconsumed positive interaction returns at
\* once, and no step of it changes the checkpoint file, the indexes, an
\* is_trained flag or a published embedding.
C9_EmptyBatchIsNoOp ==
  [][\A p \in Trainers :
       /\ (tr[p].pc = "query" /\ tr'[p].pc \notin {"query", "except", "idle"}
           /\ Len(tr'[p].new_interactions) = 0)
          => tr'[p].pc = "finally"
       /\ (tr[p].pc \notin {"idle", "off"} /\ tr'[p] # tr[p]
           /\ Len(tr[p].new_interactions) = 0 /\ Len(tr'[p].new_interactions) = 0)
          => /\ Durable' = Durable
             /\ tr'[p].user_id_to_index = tr[p].user_id_to_index
             /\ tr'[p].item_id_to_index = tr[p].item_id_to_index]_vars

\* A pass over a table holding only a skip and consumed rows found nothing, with
\* a checkpoint on disk.
C9_Witness ==
  \E p \in Trainers :
    /\ tr[p].pc = "finally"
    /\ Len(tr[p].new_interactions) = 0
    /\ ~tr[p].caught
    /\ tr[p].existing_checkpoint.status = "ok"
    /\ checkpoint = tr[p].existing_checkpoint
    /\ \E pr \in Pairs : interactions[pr].present /\ interactions[pr].action_type = "skip"

Transplanted(new_table, old_table) ==
  /\ Len(new_table) >= Len(old_table)
  /\ \A i \in 1..Len(new_table) :
       new_table[i] = IF i <= Len(old_table) THEN old_table[i]
                                             ELSE FreshRows(Len(new_table))[i]

\* C12: after _load_and_resize_model and before the first gradient step, every
\* row at an old index of the user and item tables is the checkpoint's row, and
\* only the rows at newly assigned indices hold fresh values.
C12_ResizeKeepsOldRows ==
  \A p \in Trainers :
    (tr[p].pc = "epoch" /\ tr[p].epoch = 0 /\ tr[p].existing_checkpoint.status = "ok")
    => /\ Transplanted(tr[p].model.user_embedding, tr[p].existing_checkpoint.user_embedding)
       /\ Transplanted(tr[p].model.item_embedding, tr[p].existing_checkpoint.item_embedding)
       /\ Len(tr[p].model.user_embedding) = tr[p].current_max_user_idx + 1
       /\ Len(tr[p].model.item_embedding) = tr[p].current_max_item_idx + 1

\* A pass has grown a one-user checkpoint to two users: row 0 is the trained row
\* of the checkpoint, row 1 is fresh.
C12_Witness ==
  \E p \in Trainers :
    /\ tr[p].pc = "epoch" /\ tr[p].epoch = 0
    /\ tr[p].existing_checkpoint.status = "ok"
    /\ tr[p].existing_checkpoint.user_embedding = <<MaxStamp>>
    /\ tr[p].model.user_embedding = <<MaxStamp, 0>>

\* The pass of trainer p has come to its end with no exception and with each of
\* its three saving steps done.
CompletedWithoutFailure(p) ==
  /\ tr[p].pc = "finally"
  /\ ~tr[p].caught /\ ~tr[p].exc
  /\ tr[p].marked = "committed"
  /\ tr[p].published = "committed"
  /\ tr[p].saved = "written"

\* C13: after a pass that completes without failure, every user id of the user
\* index has its trained row published under 'night_v1' and under 'day_v1', and
\* every item id of the item index has its trained row published under
\* 'night_v1' (one row per id and label, the earlier vector replaced).
C13_EveryIndexedIdPublished ==
  \A p \in Trainers :
    CompletedWithoutFailure(p) =>
      /\ \A s \in DOMAIN tr[p].user_id_to_index : \A v \in {"night_v1", "day_v1"} :
           user_embeddings[<<ParseInt(s), v>>]
             = tr[p].model.user_embedding[tr[p].user_id_to_index[s] + 1]
      /\ \A s \in DOMAIN tr[p].item_id_to_index :
           item_embeddings[<<ParseInt(s), "night_v1">>]
             = tr[p].model.item_embedding[tr[p].item_id_to_index[s] + 1]

\* A pass that resumed a checkpoint and added a user has completed: both users
\* and both items are in the indexes and published.
C13_Witness ==
  \E p \in Trainers :
    /\ CompletedWithoutFailure(p)
    /\ tr[p].existing_checkpoint.status = "ok"
    /\ Cardinality(DOMAIN tr[p].user_id_to_index) = 2
    /\ Cardinality(DOMAIN tr[p].item_id_to_index) = 2
    /\ \A u \in Users : user_embeddings[<<u, "day_v1">>] # NoVec
    /\ \A c \in Items : item_embeddings[<<c, "night_v1">>] # NoVec

\* C16: within one pass the durable effects come in a fixed order: a flag is set
\* only by a pass that has finished every epoch and has neither published nor
\* saved; the embedding tables change only in the publishing step, which comes
\* after the marking step; the checkpoint file changes only in the saving step,
\* which comes after the publishing step; once the saving step has ended the
\* pass changes nothing durable any more.
C16_DurableEffectsInOrder ==
  [][\A p \in Trainers :
       (tr'[p] # tr[p]) =>
         /\ (\E pr \in Pairs : interactions'[pr].is_trained /\ ~interactions[pr].is_trained)
            => /\ tr[p].pc = "mark" /\ tr[p].epoch = epochs
               /\ tr[p].published = "none" /\ tr[p].saved = "none"
         /\ (<<user_embeddings, item_embeddings>>' # <<user_embeddings, item_embeddings>>)
            => /\ tr[p].pc = "publish" /\ tr[p].epoch = epochs
               /\ tr[p].marked # "none" /\ tr[p].saved = "none"
         /\ (checkpoint' # checkpoint)
            => /\ tr[p].pc = "save" /\ tr[p].epoch = epochs
               /\ tr[p].marked # "none" /\ tr[p].published # "none"
         /\ (tr[p].saved # "none") => Durable' = Durable]_vars

\* A pass has set a flag, published and overwritten the checkpoint it had loaded.
C16_Witness ==
  \E p \in Trainers :
    /\ CompletedWithoutFailure(p)
    /\ tr[p].existing_checkpoint.status = "ok"
    /\ checkpoint # tr[p].existing_checkpoint
    /\ checkpoint.user_id_to_index = tr[p].user_id_to_index
    /\ \E pr \in Pairs : interactions[pr].is_trained /\ pr[1] \notin
                            {ParseInt(k) : k \in DOMAIN tr[p].existing_checkpoint.user_id_to_index}

\* C17 as stated: marking is committed chunk by chunk, so while the pass is in
\* the marking step the chunks whose UPDATE has been executed are durably marked.
C17_ChunksDurableAsExecuted ==
  \A p \in Trainers :
    tr[p].pc = "mark" =>
      \A j \in 1..Min(tr[p].mark_i, Len(tr[p].interaction_ids_to_mark)) :
        LET pr == tr[p].interaction_ids_to_mark[j]
        IN interactions[pr].present => interactions[pr].is_trained

\* C17, amended: marking is executed in chunks and committed once, after the last
\* chunk.  Every step of the marking phase other than that commit (the UPDATE of
\* a chunk, a failure that rolls back, a crash) leaves the interaction table as
\* it was, with no row of the batch marked: the next pass reads the batch again.
C17_MarksCommittedOnceAtEnd ==
  [][\A p \in Trainers :
       (tr[p].pc = "mark" /\ tr'[p] # tr[p] /\ tr'[p].marked # "committed") =>
         /\ interactions' = interactions
         /\ \A j \in 1..Len(tr[p].interaction_ids_to_mark) :
              LET pr == tr[p].interaction_ids_to_mark[j]
              IN interactions'[pr].present => ~interactions'[pr].is_trained]_vars

\* Marking failed after the UPDATE of the first of two chunks: both rows of the
\* batch are still unconsumed.
C17_Witness ==
  \E p \in Trainers :
    /\ tr[p].pc = "publish" /\ tr[p].marked = "rolled back"
    /\ Len(tr[p].interaction_ids_to_mark) = 2
    /\ tr[p].mark_i = chunk_size
    /\ \A j \in 1..2 : tr[p].interaction_ids_to_mark[j] \in UnconsumedPositive(interactions)

\* C18: every step of a pass that has not reached the marking step (loading,
\* the query, index growth, the resize, an epoch, a raise out of any of them and
\* its handling, a crash) leaves the durable state exactly as it was, and no row
\* the pass has read is flagged: the next pass reads the same rows again.
C18_NothingDurableBeforeCommitPhase ==
  [][\A p \in Trainers :
       (tr'[p] # tr[p] /\ tr[p].marked = "none" /\ tr[p].pc \notin {"idle", "off", "mark"}) =>
         /\ Durable' = Durable
         /\ \A j \in 1..Len(tr[p].new_interactions) :
              LET pr == tr[p].new_interactions[j]
              IN interactions'[pr].present => ~interactions'[pr].is_trained]_vars

\* The training loop has raised after its first epoch, on a pass that had resumed
\* a checkpoint: the checkpoint is the one loaded and the rows read are unconsumed.
C18_Witness ==
  \E p \in Trainers :
    /\ tr[p].pc = "except" /\ tr[p].exc
    /\ tr[p].marked = "none"
    /\ tr[p].epoch >= 1
    /\ tr[p].existing_checkpoint.status = "ok"
    /\ checkpoint = tr[p].existing_checkpoint
    /\ Len(tr[p].new_interactions) >= 1
    /\ \A j \in 1..Len(tr[p].new_interactions) :
         tr[p].new_interactions[j] \in UnconsumedPositive(interactions)

\* The process dies in pass p after the flags were committed and before the
\* write of the checkpoint has begun.
CrashAfterMarking(p) ==
  /\ tr[p].pc \in {"publish", "save"}
  /\ tr[p].marked = "committed" /\ tr[p].saved = "none"
  /\ tr'[p].pc = "idle" /\ tr'[p].exit = "crashed"
  /\ checkpoint' = checkpoint

\* C19 as stated: after such a crash the checkpoint is the one the pass had
\* loaded and the pass has left nothing durable but the flags.
C19_FlagsOnlyDurableEffect ==
  [][\A p \in Trainers :
       CrashAfterMarking(p) =>
         /\ LoadedCheckpoint(checkpoint') = tr[p].existing_checkpoint
         /\ tr[p].published # "committed"]_vars

\* C19, amended: after such a crash the checkpoint is the one the pass had
\* loaded; besides the flags the pass leaves, when save_embeddings had committed
\* before the crash, the embeddings it published (the trained row of every id of
\* its indexes), and otherwise it has not touched the embedding tables.
C19_FlagsAndPublishedEmbeddings ==
  [][\A p \in Trainers :
       /\ CrashAfterMarking(p) =>
            /\ LoadedCheckpoint(checkpoint') = tr[p].existing_checkpoint
            /\ <<interactions, user_embeddings, item_embeddings>>'
                 = <<interactions, user_embeddings, item_embeddings>>
            /\ (tr[p].published = "committed") =>
                 /\ \A k \in DOMAIN tr[p].user_id_to_index :
                      user_embeddings'[<<ParseInt(k), "night_v1">>]
                        = RowAt(tr[p].model.user_embedding, tr[p].user_id_to_index[k])
                 /\ \A k \in DOMAIN tr[p].item_id_to_index :
                      item_embeddings'[<<ParseInt(k), "night_v1">>]
                        = RowAt(tr[p].model.item_embedding, tr[p].item_id_to_index[k])
       /\ (tr'[p] # tr[p] /\ tr[p].marked = "committed" /\ tr[p].saved = "none"
           /\ <<user_embeddings, item_embeddings>>' # <<user_embeddings, item_embeddings>>)
          => tr'[p].published = "committed"]_vars

\* The process has died after a pass published a user the checkpoint, written by
\* an earlier pass, does not know: a flag is set and the user's row is published.
C19_Witness ==
  \E p \in Trainers : \E u \in Users :
    /\ tr[p].pc = "idle" /\ tr[p].exit = "crashed"
    /\ checkpoint.status = "ok"
    /\ Str(u) \notin DOMAIN checkpoint.user_id_to_index
    /\ user_embeddings[<<u, "night_v1">>] # NoVec
    /\ \E c \in Items : interactions[<<u, c>>].is_trained

\* C20: the commit of the marking step flags exactly the rows the pass read:
\* every row it changes is an unflagged 'like' or 'preference' row under a key
\* of the batch, every such row its UPDATE found is flagged, and a row of
\* another action type keeps its is_trained value.
C20_MarksExactlyRowsRead ==
  [][\A p \in Trainers :
       (tr[p].pc = "mark" /\ tr'[p].marked = "committed") =>
         LET ids == {tr[p].interaction_ids_to_mark[j] :
                       j \in 1..Len(tr[p].interaction_ids_to_mark)}
         IN \A pr \in Pairs :
              /\ (interactions'[pr] # interactions[pr]) =>
                   /\ pr \in ids
                   /\ pr \in UnconsumedPositive(interactions)
              /\ (pr \in tr[p].pending_marks /\ pr \in UnconsumedPositive(interactions))
                 => interactions'[pr].is_trained
              /\ (interactions[pr].action_type \notin PositiveActions)
                 => interactions'[pr].is_trained = interactions[pr].is_trained]_vars

\* C22: when an upsert of save_embeddings fails the embedding tables are left as
\* they were before the publishing step (nothing of the pass is published), no
\* exception leaves save_embeddings, and the pass is at save_checkpoint, which
\* can write the file.
C22_PublishFailureRollsBackAndGoesOn ==
  [][\A p \in Trainers :
       (tr[p].pc = "publish" /\ tr'[p].published = "rolled back") =>
         /\ <<user_embeddings, item_embeddings>>' = <<user_embeddings, item_embeddings>>
         /\ ~tr'[p].exc
         /\ tr'[p].pc = "save"
         /\ tr'[p].model = tr[p].model
         /\ tr'[p].user_id_to_index = tr[p].user_id_to_index]_vars

\* The first pass failed to publish and wrote its checkpoint: the file is there
\* and the embedding tables are empty.
C22_Witness ==
  \E p \in Trainers :
    /\ tr[p].pc = "finally"
    /\ tr[p].published = "rolled back" /\ tr[p].saved = "written"
    /\ checkpoint.status = "ok"
    /\ checkpoint.user_id_to_index = tr[p].user_id_to_index
    /\ \A key \in DOMAIN user_embeddings : user_embeddings[key] = NoVec
    /\ \A key \in DOMAIN item_embeddings : item_embeddings[key] = NoVec

\* C23: a pass that found an unreadable checkpoint file goes on as a pass that
\* found none: no exception, existing_checkpoint is None, the counts start at
\* zero, the indexes hold only the ids of the batch and the model it trains
\* starts from fresh rows only.
C23_UnreadableCheckpointIsAbsent ==
  \A p \in Trainers :
    (checkpoint.status = "corrupt" /\ tr[p].saved = "none"
     /\ tr[p].pc \in {"query", "map", "build", "epoch", "mark", "publish", "save"}) =>
      /\ tr[p].existing_checkpoint = AbsentCheckpoint
      /\ ~tr[p].exc
      /\ (tr[p].pc # "query") =>
           /\ tr[p].num_users = 0 /\ tr[p].num_items = 0
           /\ \A k \in DOMAIN tr[p].user_id_to_index :
                \E j \in 1..Len(tr[p].new_interactions) :
                  k = Str(tr[p].new_interactions[j][1])
           /\ \A k \in DOMAIN tr[p].item_id_to_index :
                \E j \in 1..Len(tr[p].new_interactions) :
                  k = Str(tr[p].new_interactions[j][2])
      /\ (tr[p].pc = "epoch" /\ tr[p].epoch = 0) =>
           /\ tr[p].model.user_embedding = FreshRows(tr[p].current_max_user_idx + 1)
           /\ tr[p].model.item_embedding = FreshRows(tr[p].current_max_item_idx + 1)

\* A pass over an unreadable file is about to train a fresh model, while ids of
\* an earlier pass are published.
C23_Witness ==
  \E p \in Trainers :
    /\ checkpoint.status = "corrupt"
    /\ tr[p].pc = "epoch" /\ tr[p].epoch = 0
    /\ tr[p].existing_checkpoint = AbsentCheckpoint
    /\ \E key \in DOMAIN user_embeddings : user_embeddings[key] # NoVec

\* The checkpoint file is a snapshot whose indexes lack the user or the item of
\* an interaction that is flagged consumed.
SnapshotLacksConsumedIds ==
  /\ checkpoint.status = "ok"
  /\ \E pr \in Pairs :
       /\ interactions[pr].present /\ interactions[pr].is_trained
       /\ \/ Str(pr[1]) \notin DOMAIN checkpoint.user_id_to_index
          \/ Str(pr[2]) \notin DOMAIN checkpoint.item_id_to_index

\* One dense index has been bound to two stable ids of the same kind.
IndexBoundToTwoIds ==
  \E b1, b2 \in history : b1[1] = b2[1] /\ b1[3] = b2[3] /\ b1[2] # b2[2]

\* C27: a pass that has written the checkpoint, with the model it fine-tuned on
\* its batch, has committed the flags of that batch: a failed marking step is not
\* followed by a checkpoint write in the same pass.
C27_SavedBatchIsMarked ==
  \A p \in Trainers :
    (tr[p].saved = "written" /\ Len(tr[p].interaction_ids_to_mark) > 0)
      => tr[p].marked = "committed"

\* C28: when a pass returns normally, the user and the item of every interaction
\* of its batch that is flagged consumed are in the identity indexes of the
\* checkpoint file.
C28_ConsumedIdsInCheckpoint ==
  [][\A p \in Trainers :
       (tr[p].pc = "finally" /\ tr'[p].pc = "idle" /\ tr'[p].exit = "returned") =>
         \A j \in 1..Len(tr[p].interaction_ids_to_mark) :
           LET pr == tr[p].interaction_ids_to_mark[j]
           IN (interactions[pr].present /\ interactions[pr].is_trained) =>
                /\ checkpoint.status = "ok"
                /\ Str(pr[1]) \in DOMAIN checkpoint.user_id_to_index
                /\ Str(pr[2]) \in DOMAIN checkpoint.item_id_to_index]_vars

---------------------------------------------------------------------------
\* Properties of the trainer over a foreign checkpoint (specification SpecResume).

\* C21: whatever the checkpoint file holds, the pass is not aborted by it: with
\* rows to train on, the step that takes the mappings from the checkpoint can go
\* on to the mapping loop, and the step that builds the model and loads the
\* checkpoint's weights can go on to the first epoch.
C21_CheckpointNeverAbortsPass ==
  \A p \in Trainers :
    /\ (tr[p].pc = "query" /\ UnconsumedPositive(interactions) # {})
       => ENABLED (QueryNewInteractions(p) /\ tr'[p].pc = "map")
    /\ (tr[p].pc = "build")
       => ENABLED (BuildModel(p) /\ tr'[p].pc = "epoch")

---------------------------------------------------------------------------
\* Properties of recommend (specification SpecRec).

\* The step of request r that scores, ranks and returns.
ScoreStep(r) ==
  rq[r].pc = "score" /\ rq'[r].pc = "done"

\* The score of an item id for the user of request r, before masking.
ScoreOfItem(r, item_id) ==
  Scores(svc, rq[r].user_idx)[svc.item_id_to_index[Str(item_id)] + 1]

\* The dense index of an item id.
IndexOfItem(item_id) ==
  svc.item_id_to_index[Str(item_id)]

\* C4: recommend never returns an item for which the user has an interaction
\* row, of whatever action type, when the request is served.
C4_NeverReturnsSeenItem ==
  [][\A r \in Requests :
       ScoreStep(r) =>
         \A k \in DOMAIN rq'[r].result :
           ~interactions[<<rq[r].user_id, rq'[r].result[k]>>].present]_vars

\* Of a two-item catalog one item was returned, the other being one the user
\* skipped.
C4_Witness ==
  \E r \in Requests :
    /\ rq[r].pc = "done"
    /\ Len(svc.model.item_embedding) = 2
    /\ Len(rq[r].result) = 1
    /\ \E c \in Items :
         /\ interactions[<<rq[r].user_id, c>>].present
         /\ interactions[<<rq[r].user_id, c>>].action_type = "skip"
         /\ Str(c) \in DOMAIN svc.item_id_to_index
         /\ c # rq[r].result[1]

\* C5: for a user absent from the loaded user index, and when no checkpoint was
\* loaded, recommend returns ([], 0), raises nothing and leaves the model as it
\* was.
C5_UnknownUserEmptyResult ==
  [][\A r \in Requests :
       (rq[r].pc \in {"idle", "done"} /\ rq'[r] # rq[r]
        /\ (~svc.is_ready \/ Str(rq'[r].user_id) \notin DOMAIN svc.user_id_to_index))
       => /\ rq'[r].pc = "done"
          /\ rq'[r].result = <<>>
          /\ rq'[r].total = 0
          /\ svc' = svc]_vars

\* A request of a user outside the loaded index, who has a day_v1 vector, is done.
C5_Witness ==
  \E r \in Requests :
    /\ rq[r].pc = "done"
    /\ svc.is_ready
    /\ Str(rq[r].user_id) \notin DOMAIN svc.user_id_to_index
    /\ user_embeddings[<<rq[r].user_id, "day_v1">>] # NoVec
    /\ rq[r].result = <<>> /\ rq[r].total = 0

\* The catalog size minus the user's seen items that the item index knows.
EligibleCount(r) ==
  Len(svc.model.item_embedding)
    - Cardinality({c \in Items : interactions[<<rq[r].user_id, c>>].present
                                 /\ Str(c) \in DOMAIN svc.item_id_to_index})

\* C6: the total recommend returns is the catalog size minus the user's seen
\* items in the index, whatever the page and the limit, and a page starting at
\* or past the total is ([], total).
C6_TotalIsEligibleCount ==
  [][\A r \in Requests :
       ScoreStep(r) =>
         /\ rq'[r].total = EligibleCount(r)
         /\ (rq[r].page - 1) * rq[r].limit >= EligibleCount(r) => rq'[r].result = <<>>
         /\ (rq[r].page - 1) * rq[r].limit < EligibleCount(r) => Len(rq'[r].result) > 0]_vars

\* Page 2 of size 1 for a user with one eligible item out of two: ([], 1).
C6_Witness ==
  \E r \in Requests :
    /\ rq[r].pc = "done"
    /\ rq[r].page = 2 /\ rq[r].limit = 1
    /\ Len(svc.model.item_embedding) = 2
    /\ rq[r].total = 1
    /\ rq[r].result = <<>>

\* C7 as stated: the returned list is in non-increasing score order and, of two
\* items with the same score, the one with the smaller dense index comes first.
C7_TiesBySmallerIndex ==
  [][\A r \in Requests :
       ScoreStep(r) =>
         \A k, l \in DOMAIN rq'[r].result :
           k < l =>
             \/ ScoreOfItem(r, rq'[r].result[k]) > ScoreOfItem(r, rq'[r].result[l])
             \/ /\ ScoreOfItem(r, rq'[r].result[k]) = ScoreOfItem(r, rq'[r].result[l])
                /\ IndexOfItem(rq'[r].result[k]) < IndexOfItem(rq'[r].result[l])]_vars

\* C7 as amended: the returned list is in non-increasing score order (nothing is
\* promised about the order of items with the same score).
C7_NonIncreasingScore ==
  [][\A r \in Requests :
       ScoreStep(r) =>
         \A k, l \in DOMAIN rq'[r].result :
           k < l => ScoreOfItem(r, rq'[r].result[k]) >= ScoreOfItem(r, rq'[r].result[l])]_vars

\* Two items of different scores were returned, the higher first.
C7_Witness ==
  \E r \in Requests :
    /\ rq[r].pc = "done"
    /\ Len(rq[r].result) = 2
    /\ ScoreOfItem(r, rq[r].result[1]) > ScoreOfItem(r, rq[r].result[2])

\* C14: the override of recommend lasts for the request that made it: once the
\* request has returned, the user rows of the shared model are again the rows
\* loaded from the checkpoint.  (Under SpecRec the checkpoint file is the one
\* the service loaded.)
C14_OverrideConfinedToRequest ==
  \A r \in Requests :
    (rq[r].pc = "done" /\ svc.is_ready)
    => svc.model.user_embedding = checkpoint.user_embedding

\* C15: for a known user with no 'day_v1' vector, or whose injection raises,
\* recommend does not fail, leaves the user's row as it is, and scores with the
\* checkpoint's row of the user.
C15_DegradesToCheckpointRow ==
  [][\A r \in Requests :
       /\ (rq[r].pc = "inject" /\ rq'[r].injected \in {"absent", "failed"})
          => (svc' = svc /\ rq'[r].pc = "score")
       /\ (rq[r].pc = "score" /\ rq[r].injected \in {"absent", "failed"} /\ rq'[r] # rq[r])
          => /\ rq'[r].pc = "done"
             /\ RowAt(svc.model.user_embedding, rq[r].user_idx)
                  = RowAt(checkpoint.user_embedding, rq[r].user_idx)]_vars

---------------------------------------------------------------------------
\* Properties of concurrent requests (specification SpecConc).

\* C24: under every interleaving of two requests, a row of the shared user table
\* is written only by the injection step of a request for the user whose dense
\* index the row is, with the vector published for that user; and the row a
\* request scores with is its user's checkpoint row or the vector published for
\* its user.
C24_RowsWrittenOnlyForOwnUser ==
  [][/\ \A i \in 1..Len(svc.model.user_embedding) :
          (svc.constructed /\ svc'.model.user_embedding[i] # svc.model.user_embedding[i]) =>
            \E r \in Requests :
              /\ rq[r].pc = "inject" /\ rq'[r].pc = "score"
              /\ svc.user_id_to_index[Str(rq[r].user_id)] = i - 1
              /\ svc'.model.user_embedding[i] = user_embeddings[<<rq[r].user_id, "day_v1">>]
     /\ \A r \in Requests :
          (rq[r].pc = "score" /\ rq'[r].pc = "done") =>
            /\ rq[r].user_idx = checkpoint.user_id_to_index[Str(rq[r].user_id)]
            /\ RowAt(svc.model.user_embedding, rq[r].user_idx)
                 \in {RowAt(checkpoint.user_embedding, rq[r].user_idx),
                      user_embeddings[<<rq[r].user_id, "day_v1">>]}]_vars

\* Two requests for different users are both between injection and scoring, each
\* user's row holding that user's vector.
C24_Witness ==
  /\ rq["r1"].pc = "score" /\ rq["r2"].pc = "score"
  /\ rq["r1"].injected = "done" /\ rq["r2"].injected = "done"
  /\ rq["r1"].user_id # rq["r2"].user_id
  /\ \A r \in Requests :
       RowAt(svc.model.user_embedding, rq[r].user_idx) = DayVector(rq[r].user_id)

---------------------------------------------------------------------------
\* Properties of the service next to the trainer (specification SpecLive).

\* C25: once the instance is constructed, no step (a training pass writing the
\* checkpoint, a later call of the accessor with any path) changes it: it stays
\* the instance, with the same identity indexes, catalog size and readiness.
C25_LoadedAtMostOnce ==
  [][svc.constructed =>
       /\ svc'.constructed
       /\ svc'.user_id_to_index = svc.user_id_to_index
       /\ svc'.item_id_to_index = svc.item_id_to_index
       /\ svc'.index_to_item_id = svc.index_to_item_id
       /\ Len(svc'.model.item_embedding) = Len(svc.model.item_embedding)
       /\ Len(svc'.model.user_embedding) = Len(svc.model.user_embedding)
       /\ svc'.is_ready = svc.is_ready
       /\ svc'.has_model = svc.has_model]_vars

\* The instance was constructed when there was no checkpoint file; a pass has
\* written one since, and the instance is still not ready.
C25_Witness ==
  /\ svc.constructed /\ ~svc.is_ready /\ ~svc.has_model
  /\ checkpoint.status = "ok"
  /\ \E p \in Trainers : tr[p].pc = "idle" /\ tr[p].exit = "returned"

---------------------------------------------------------------------------
\* Properties of overlapping passes (specification SpecOverlap).

\* Pass p has never been started.
NeverRan(p) ==
  tr[p].pc = "idle" /\ tr[p].exit = "none"

\* C26, its last part: as long as one of the two jobs has never run, so that no
\* two passes have overlapped, the latest snapshot does not lack index
\* assignments of consumed interactions while a dense index has been bound to
\* two stable ids.
C26_UnreachableWithoutOverlap ==
  (\E p \in Trainers : NeverRan(p))
    => ~(SnapshotLacksConsumedIds /\ IndexBoundToTwoIds)

\* C26, its first part: two passes loaded the same checkpoint before either
\* saved, both wrote theirs, and the one written last lacks ids of consumed
\* interactions while a dense index has been bound to two stable ids.
C26_Witness ==
  /\ \A p \in Trainers : tr[p].pc = "finally" /\ tr[p].saved = "written"
                          /\ tr[p].existing_checkpoint = AbsentCheckpoint
  /\ SnapshotLacksConsumedIds
  /\ IndexBoundToTwoIds

---------------------------------------------------------------------------
\* Properties of the epoch loop (specification SpecBatch).

\* C29: every interaction a pass marks consumed was in the batch of at least one
\* gradient step of the pass, whatever the number of pairs and the batch size.
C29_MarkedWereTrained ==
  \A p \in Trainers : tr[p].marked \subseteq tr[p].used

---------------------------------------------------------------------------
\* Paging (specification SpecRec).

Max(a, b) == IF a > b THEN a ELSE b

\* The ids a sequence lists.
Range(seq) == {seq[k] : k \in DOMAIN seq}

\* The item ids of the index that the user of request r has no interaction with.
EligibleItems(r) ==
  {c \in Items : /\ Str(c) \in DOMAIN svc.item_id_to_index
                  /\ ~interactions[<<rq[r].user_id, c>>].present}

\* C30: when a request is scored, for the service state, the user and the limit
\* of that request and whichever order the argsort gives equal scores: the list
\* returned is the requested page of that order; page p holds
\* min(limit, max(0, T - (p-1)*limit)) ids, none twice; two pages share no id;
\* and the pages together list exactly the T eligible items.
C30_PagesPartitionEligibleItems ==
  [][\A r \in Requests :
       ScoreStep(r) =>
         LET scores == MaskSeen(Scores(svc, rq[r].user_idx),
                                SeenIndices(svc, interactions, rq[r].user_id))
             T == ValidCount(scores)
             limit == rq[r].limit
             pages == 1..(Len(scores) + 1)
         IN /\ \E sorted_indices \in ArgsortReversed(scores) :
                 rq'[r].result = PageOf(svc, scores, sorted_indices, rq[r].page, limit)
            /\ rq'[r].total = T
            /\ \A sorted_indices \in ArgsortReversed(scores) :
                 LET Page(p) == PageOf(svc, scores, sorted_indices, p, limit)
                 IN /\ \A p \in pages :
                         /\ Len(Page(p)) = Min(limit, Max(0, T - (p - 1) * limit))
                         /\ Cardinality(Range(Page(p))) = Len(Page(p))
                    /\ \A p, q \in pages : p # q => Range(Page(p)) \cap Range(Page(q)) = {}
                    /\ UNION {Range(Page(p)) : p \in pages} = EligibleItems(r)
                    /\ Cardinality(EligibleItems(r)) = T]_vars

\* A page of limit 2 came back with the one eligible item of a catalog of two:
\* the seen item, ranked last, did not fill the second slot.
C30_Witness ==
  \E r \in Requests :
    /\ rq[r].pc = "done"
    /\ rq[r].page = 1 /\ rq[r].limit = 2
    /\ Len(svc.model.item_embedding) = 2
    /\ rq[r].total = 1
    /\ Len(rq[r].result) = 1
    /\ \E c \in Items : interactions[<<rq[r].user_id, c>>].present
                          /\ Str(c) \in DOMAIN svc.item_id_to_index

====
